---- MODULE Spec2Model ----
(***************************************************************************)
(* Model of zerver/views/integrations.py: the API-URL, help, integrations  *)
(* directory, integration_doc and api_endpoint_docs endpoints.             *)
(*                                                                         *)
(* A Python str is a sequence of one-character strings, so that `in`,      *)
(* replace, %-formatting, endswith and the ordering used by sorted() are   *)
(* computed character by character.  A dict is a function whose domain is  *)
(* the set of its keys; an optional dict (None or a dict) is a sequence of *)
(* length 0 or 1.  Objects held by reference (the registry entries) live   *)
(* in `objects` and are named by their id.                                 *)
(***************************************************************************)
EXTENDS Integers, Sequences, FiniteSets, TLC

\* ------------------------------------------------------------------ bounds
MaxArticleLen == 2

MaxResponseLen == 3

\* ------------------------------------------------------- string primitives
\* ord(): the code point of the characters the model uses.
Ord(c) ==
    CASE c = "\n" -> 10
      [] c = " "  -> 32
      [] c = "%"  -> 37
      [] c = ","  -> 44
      [] c = "."  -> 46
      [] c = "/"  -> 47
      [] c = ":"  -> 58
      [] c = "D"  -> 68
      [] c = "Z"  -> 90
      [] c = "a"  -> 97
      [] c = "b"  -> 98
      [] c = "c"  -> 99
      [] c = "d"  -> 100
      [] c = "e"  -> 101
      [] c = "g"  -> 103
      [] c = "h"  -> 104
      [] c = "i"  -> 105
      [] c = "l"  -> 108
      [] c = "m"  -> 109
      [] c = "n"  -> 110
      [] c = "o"  -> 111
      [] c = "p"  -> 112
      [] c = "r"  -> 114
      [] c = "s"  -> 115
      [] c = "t"  -> 116
      [] c = "u"  -> 117
      [] c = "v"  -> 118
      [] c = "x"  -> 120
      [] c = "y"  -> 121
      [] c = "z"  -> 122
      [] c = "~"  -> 126

\* s[i:] of Python, 1-based: the suffix of s that starts at position i.
From(s, i) == SubSeq(s, i, Len(s))

\* s.startswith(sub, i-1)
StartsAt(s, sub, i) ==
    /\ i + Len(sub) - 1 <= Len(s)
    /\ SubSeq(s, i, i + Len(sub) - 1) = sub

\* `sub in s` for a non-empty sub
Contains(s, sub) == \E i \in 1..Len(s) : StartsAt(s, sub, i)

\* s.endswith(sub)
EndsWith(s, sub) ==
    /\ Len(sub) <= Len(s)
    /\ SubSeq(s, Len(s) - Len(sub) + 1, Len(s)) = sub

\* s.replace(old, new) for a non-empty old: leftmost, non-overlapping.
RECURSIVE Replace(_, _, _)
Replace(s, old, new) ==
    IF s = <<>> THEN <<>>
    ELSE IF StartsAt(s, old, 1)
         THEN new \o Replace(From(s, Len(old) + 1), old, new)
         ELSE <<Head(s)>> \o Replace(Tail(s), old, new)

\* template % args: each %s of the template takes the next argument.
RECURSIVE Format(_, _)
Format(template, args) ==
    IF template = <<>> THEN <<>>
    ELSE IF StartsAt(template, <<"%", "s">>, 1) /\ args # <<>>
         THEN Head(args) \o Format(From(template, 3), Tail(args))
         ELSE <<Head(template)>> \o Format(Tail(template), args)

\* s < t for Python str: lexicographic by code point, a proper prefix first.
RECURSIVE StrLess(_, _)
StrLess(s, t) ==
    IF t = <<>> THEN FALSE
    ELSE IF s = <<>> THEN TRUE
    ELSE IF Head(s) = Head(t) THEN StrLess(Tail(s), Tail(t))
    ELSE Ord(Head(s)) < Ord(Head(t))

\* All sequences over S of length at most n.
SeqsUpTo(S, n) == UNION {[1..k -> S] : k \in 0..n}

\* ------------------------------------------------------------------ state
VARIABLES
    settings,        \* django.conf.settings: ROOT_DOMAIN_LANDING_PAGE,
                     \* EXTERNAL_API_PATH, EXTERNAL_URI_SCHEME
    templates,       \* the template paths loader.get_template resolves
    api_content,     \* parsed templates/zerver/api_content.json
    CATEGORIES,      \* registry: <<key, value>> items in iteration order
    INTEGRATIONS,    \* registry: <<key, object id>> items in iteration order
    HUBOT_LOZENGES,  \* registry: <<key, object id>> items in iteration order
    objects,         \* the registry entries, by object id
    start,           \* the registries and their entries at process start
    request,         \* the request handled last
    response,        \* its response
    trace            \* the calls and context writes made while handling it

vars == <<settings, templates, api_content, CATEGORIES, INTEGRATIONS,
          HUBOT_LOZENGES, objects, start, request, response, trace>>

\* ------------------------------------------------------- program constants
\* Realm.SUBDOMAIN_FOR_ROOT_DOMAIN (zerver/models.py): the empty string.
SUBDOMAIN_FOR_ROOT_DOMAIN == <<>>

yourZulipDomain ==
    <<"y", "o", "u", "r", "Z", "u", "l", "i", "p", "D", "o", "m", "a", "i", "n">>

\* HelpView.path_template: 'zerver/help/%s.md'
path_template ==
    <<"z", "e", "r", "v", "e", "r", "/", "h", "e", "l", "p", "/", "%", "s",
      ".", "m", "d">>

index == <<"i", "n", "d", "e", "x">>

missing == <<"m", "i", "s", "s", "i", "n", "g">>

\* 'https://api.zulip.com', the host the catalog's curl examples are written with
ApiHost ==
    <<"h", "t", "t", "p", "s", ":", "/", "/", "a", "p", "i", ".", "z", "u",
      "l", "i", "p", ".", "c", "o", "m">>

\* "~~~ .py\n" and "\n~~~\n", the code fence put around an example response
FenceOpen == <<"~", "~", "~", " ", ".", "p", "y", "\n">>

FenceClose == <<"\n", "~", "~", "~", "\n">>

\* ---------------------------------------------------------------- helpers
\* d[k] = v on a dict
Put(d, k, v) == (k :> v) @@ d

\* d.update(e)
Update(d, e) == e @@ d

\* The empty dict {}
EmptyDict == <<>>

\* ------------------------------------------------------ add_api_uri_context
\* Mutant of display_subdomain: `and` for `or` in the condition of line 22.
display_subdomain_And(subdomain) ==
    IF subdomain # SUBDOMAIN_FOR_ROOT_DOMAIN /\ ~settings.ROOT_DOMAIN_LANDING_PAGE
    THEN subdomain
    ELSE yourZulipDomain

\* lines 22-28: the display subdomain
display_subdomain(subdomain) ==
    IF subdomain # SUBDOMAIN_FOR_ROOT_DOMAIN \/ ~settings.ROOT_DOMAIN_LANDING_PAGE
    THEN subdomain
    ELSE yourZulipDomain

\* lines 22-28: whether settings links are rendered as HTML anchors
html_settings_links(subdomain) ==
    IF subdomain # SUBDOMAIN_FOR_ROOT_DOMAIN \/ ~settings.ROOT_DOMAIN_LANDING_PAGE
    THEN TRUE
    ELSE FALSE

\* Mutant of external_api_path_subdomain: line 29 tests the request's
\* subdomain where it should test the display subdomain.
external_api_path_subdomain_RawTest(subdomain) ==
    IF subdomain # SUBDOMAIN_FOR_ROOT_DOMAIN
    THEN Format(<<"%", "s", ".", "%", "s">>,
                <<display_subdomain(subdomain), settings.EXTERNAL_API_PATH>>)
    ELSE settings.EXTERNAL_API_PATH

\* lines 29-33
external_api_path_subdomain(subdomain) ==
    IF display_subdomain(subdomain) # SUBDOMAIN_FOR_ROOT_DOMAIN
    THEN Format(<<"%", "s", ".", "%", "s">>,
                <<display_subdomain(subdomain), settings.EXTERNAL_API_PATH>>)
    ELSE settings.EXTERNAL_API_PATH

\* lines 35-36
external_api_uri_subdomain(subdomain) ==
    Format(<<"%", "s", "%", "s">>,
           <<settings.EXTERNAL_URI_SCHEME, external_api_path_subdomain(subdomain)>>)

\* The context after add_api_uri_context(context, request), where subdomain is
\* get_subdomain(request).
add_api_uri_context(context, subdomain) ==
    Put(Put(Put(context,
        "external_api_path_subdomain", external_api_path_subdomain(subdomain)),
        "external_api_uri_subdomain", external_api_uri_subdomain(subdomain)),
        "html_settings_links", html_settings_links(subdomain))

\* ApiURLView.get_context_data: ContextMixin's context (the view itself, then
\* the keyword arguments) enriched by add_api_uri_context.
ApiURLView_get_context_data(view, kwargs, subdomain) ==
    add_api_uri_context(Update("view" :> view, kwargs), subdomain)

\* ----------------------------------------------------------------- HelpView
\* Mutant of get_path: the guard of lines 61-62 is missing.
get_path_NoSlashGuard(article) ==
    LET a == IF article = <<>> THEN index ELSE article
    IN  Format(path_template, <<a>>)

get_path(article) ==
    LET a == IF article = <<>> THEN index
             ELSE IF Contains(article, <<"/">>) THEN missing
             ELSE article
    IN  Format(path_template, <<a>>)

\* loader.get_template(path) returns; otherwise it raises TemplateDoesNotExist.
get_template(path) == path \in templates

\* Mutant of HelpView_get_context_data: no fallback to the 'missing' article.
HelpView_get_context_data_NoFallback(article, subdomain) ==
    LET context == ApiURLView_get_context_data("HelpView", EmptyDict, subdomain)
        path    == get_path(article)
        c2      == Put(Put(context, "article", path), "not_index_page",
                       ~EndsWith(path, <<"/", "i", "n", "d", "e", "x", ".", "m", "d">>))
    IN  Put(c2, "page_is_help_center", TRUE)

HelpView_get_context_data(article, subdomain) ==
    LET context == ApiURLView_get_context_data("HelpView", EmptyDict, subdomain)
        path    == get_path(article)
        c1      == IF get_template(path)
                   THEN Put(context, "article", path)
                   ELSE Put(context, "article", get_path(missing))
        c2      == Put(c1, "not_index_page",
                       ~EndsWith(path, <<"/", "i", "n", "d", "e", "x", ".", "m", "d">>))
    IN  Put(c2, "page_is_help_center", TRUE)

\* Mutant of HelpView_get: lines 90-91 are missing.
HelpView_get_NoSlashCheck(article, subdomain) ==
    [status_code   |-> IF get_template(get_path(article)) THEN 200 ELSE 404,
     template_name |-> "zerver/help/main.html",
     context       |-> HelpView_get_context_data(article, subdomain),
     content       |-> <<>>]

\* HelpView.get: TemplateView.get renders get_context_data(article=article)
\* into a response of status 200, whose status is then adjusted.
HelpView_get(article, subdomain) ==
    LET path   == get_path(article)
        result == [status_code   |-> 200,
                   template_name |-> "zerver/help/main.html",
                   context       |-> HelpView_get_context_data(article, subdomain),
                   content       |-> <<>>]
        r1     == IF get_template(path) THEN result
                  ELSE [result EXCEPT !.status_code = 404]
    IN  IF Contains(article, <<"/">>)
        THEN [r1 EXCEPT !.status_code = 404]
        ELSE r1

\* ------------------------------------------------ add_integrations_context
\* Insert one (key, value) item into items already sorted by key.
RECURSIVE Insert(_, _)
Insert(item, items) ==
    IF items = <<>> THEN <<item>>
    ELSE IF StrLess(item[1], Head(items)[1])
         THEN <<item>> \o items
         ELSE <<Head(items)>> \o Insert(item, Tail(items))

\* Mutant of Sorted: OrderedDict(registry.items()), without sorted().
Sorted_IterationOrder(items) == items

\* OrderedDict(sorted(registry.items())): the items of a dict have distinct
\* keys, so the key alone orders them.
RECURSIVE Sorted(_)
Sorted(items) ==
    IF items = <<>> THEN <<>>
    ELSE Insert(Head(items), Sorted(Tail(items)))

\* entry.add_doc_context(context): the entry contributes its own fields.
add_doc_context(id, context) == Update(context, objects[id].hook)

\* for name in view: view[name].add_doc_context(context)
RECURSIVE RunHooks(_, _)
RunHooks(view, st) ==
    IF view = <<>> THEN st
    ELSE RunHooks(Tail(view),
                  [context |-> add_doc_context(Head(view)[2], st.context),
                   trace   |-> Append(st.trace, <<"add_doc_context", Head(view)[2]>>)])

\* lines 104-109
settings_html(context) ==
    IF "html_settings_links" \in DOMAIN context /\ context["html_settings_links"]
    THEN "<a href=\"../../#settings\">Zulip settings page</a>"
    ELSE "Zulip settings page"

subscriptions_html(context) ==
    IF "html_settings_links" \in DOMAIN context /\ context["html_settings_links"]
    THEN "<a target=\"_blank\" href=\"../../#streams\">streams page</a>"
    ELSE "streams page"

\* Mutant of add_integrations_context: the loop over the lozenges (lines
\* 117-118) comes before the loop over the integrations (lines 114-115).
add_integrations_context_LozengesFirst(context) ==
    LET c3 == Put(Put(Put(context,
                  "categories_dict", Sorted(CATEGORIES)),
                  "integrations_dict", Sorted(INTEGRATIONS)),
                  "hubot_lozenges_dict", Sorted(HUBOT_LOZENGES))
        c5 == Put(Put(c3, "settings_html", settings_html(c3)),
                  "subscriptions_html", subscriptions_html(c3))
        written == [context |-> c5,
                    trace   |-> << <<"set", "categories_dict">>,
                                   <<"set", "integrations_dict">>,
                                   <<"set", "hubot_lozenges_dict">>,
                                   <<"set", "settings_html">>,
                                   <<"set", "subscriptions_html">> >>]
    IN  RunHooks(Sorted(INTEGRATIONS), RunHooks(Sorted(HUBOT_LOZENGES), written))

\* The context after add_integrations_context(context), and what it did.
add_integrations_context(context) ==
    LET alphabetical_sorted_categories     == Sorted(CATEGORIES)
        alphabetical_sorted_integration    == Sorted(INTEGRATIONS)
        alphabetical_sorted_hubot_lozenges == Sorted(HUBOT_LOZENGES)
        c1 == Put(context, "categories_dict", alphabetical_sorted_categories)
        c2 == Put(c1, "integrations_dict", alphabetical_sorted_integration)
        c3 == Put(c2, "hubot_lozenges_dict", alphabetical_sorted_hubot_lozenges)
        c4 == Put(c3, "settings_html", settings_html(c3))
        c5 == Put(c4, "subscriptions_html", subscriptions_html(c3))
        written == [context |-> c5,
                    trace   |-> << <<"set", "categories_dict">>,
                                   <<"set", "integrations_dict">>,
                                   <<"set", "hubot_lozenges_dict">>,
                                   <<"set", "settings_html">>,
                                   <<"set", "subscriptions_html">> >>]
    IN  RunHooks(alphabetical_sorted_hubot_lozenges,
                 RunHooks(alphabetical_sorted_integration, written))

\* ----------------------------------------------------------- integration_doc
\* INTEGRATIONS[integration_name] raises KeyError; None is no key.
KeyError(integration_name) ==
    \/ integration_name = <<>>
    \/ \A i \in 1..Len(INTEGRATIONS) : INTEGRATIONS[i][1] # integration_name[1]

\* INTEGRATIONS[integration_name], as an object id
Lookup(integration_name) ==
    LET i == CHOOSE j \in 1..Len(INTEGRATIONS) :
                 INTEGRATIONS[j][1] = integration_name[1]
    IN  INTEGRATIONS[i][2]

\* `integration.doc_context or {}` is integration.doc_context itself: it is
\* neither None nor empty.
Truthy(doc_context) == doc_context # <<>> /\ doc_context[1] # EmptyDict

\* render_markdown_path(doc, context): the markdown renderer's output
render_markdown_path(doc, context) == <<"render_markdown_path", doc, context>>

\* bugdown.convert(text): the markdown renderer's output
bugdown_convert(text) == <<"bugdown.convert", text>>

\* Mutant of HttpResponseNotFound: HttpResponse() is returned at line 137.
HttpResponseNotFound_Ok ==
    [status_code |-> 200, template_name |-> "", context |-> EmptyDict,
     content |-> <<>>]

\* HttpResponseNotFound()
HttpResponseNotFound ==
    [status_code |-> 404, template_name |-> "", context |-> EmptyDict,
     content |-> <<>>]

\* HttpResponse(content)
HttpResponse(content) ==
    [status_code |-> 200, template_name |-> "", context |-> EmptyDict,
     content |-> content]

\* render(request, template_name, context) and TemplateView.render_to_response
render(template_name, context) ==
    [status_code |-> 200, template_name |-> template_name, context |-> context,
     content |-> <<>>]

\* --------------------------------------------------------- api_endpoint_docs
\* Mutant of extended_response: replace(", ", ",\n ", 1), which stops after
\* the first occurrence.
extended_response_FirstOnly(example_response) ==
    LET first == {i \in 1..Len(example_response) :
                     /\ StartsAt(example_response, <<",", " ">>, i)
                     /\ \A j \in 1..(i - 1) :
                           ~StartsAt(example_response, <<",", " ">>, j)}
    IN  IF ~Contains(example_response, <<"\n">>) /\ first # {}
        THEN LET i == CHOOSE j \in first : TRUE
             IN  SubSeq(example_response, 1, i) \o <<"\n">>
                     \o From(example_response, i + 1)
        ELSE example_response

\* lines 158-163
extended_response(example_response) ==
    IF ~Contains(example_response, <<"\n">>)
    THEN Replace(example_response, <<",", " ">>, <<",", "\n", " ">>)
    ELSE example_response

\* The body of the loop over calls, lines 154-164.
transform_call(call, context) ==
    [endpoint         |-> Format(<<"%", "s", "/", "v", "1", "/", "%", "s">>,
                                 <<context["external_api_uri_subdomain"],
                                   call.endpoint>>),
     example_request  |-> Put(call.example_request, "curl",
                              Replace(call.example_request["curl"], ApiHost,
                                      context["external_api_uri_subdomain"])),
     example_response |-> call.example_response,
     rendered_response |->
         bugdown_convert(FenceOpen \o extended_response(call.example_response)
                                   \o FenceClose)]

\* lines 165-167: the keys of example_request and, example_response being a
\* str, each of its characters.
call_langs(call) ==
    DOMAIN call.example_request
        \cup {call.example_response[i] : i \in 1..Len(call.example_response)}

api_endpoint_docs(subdomain) ==
    LET context == add_api_uri_context(EmptyDict, subdomain)
        calls   == [i \in 1..Len(api_content) |->
                        transform_call(api_content[i], context)]
        langs   == UNION {call_langs(api_content[i]) : i \in 1..Len(api_content)}
    IN  render("zerver/api_endpoints.html",
               [content |-> calls, langs |-> langs])

\* The loader.get_template calls of one help request, in order: the one of
\* get_context_data (line 71), then the one of get (line 86).
HelpView_lookups(article) ==
    << <<"get_template", get_path(article)>>,
       <<"get_template", get_path(article)>> >>

\* --------------------------------------------------------- initial states
\* The article names requested.
Articles ==
    SeqsUpTo({"a", "/"}, MaxArticleLen) \cup {index, missing, <<"a", "/", "a">>}

\* get_subdomain(request): the root domain or a realm's subdomain
Subdomains == {SUBDOMAIN_FOR_ROOT_DOMAIN, <<"z">>}

\* The integration_name parameter: absent (None), a registered name, or not.
IntegrationNames ==
    {<<>>, << <<"a">> >>, << <<"a", "b">> >>, << <<"b">> >>, << <<"c">> >>}

\* The help templates that may be installed: index.md, missing.md, a.md and
\* a/a.md.
TemplateCandidates ==
    {get_path(<<>>), get_path(missing), get_path(<<"a">>),
     Format(path_template, << <<"a", "/", "a">> >>)}

AllTemplates == TemplateCandidates

\* The items of a registry in every iteration order.
Orders(items) ==
    {s \in [1..Cardinality(items) -> items] :
        \A i, j \in 1..Cardinality(items) : s[i] = s[j] => i = j}

CategoryItems == {<< <<"Z">>, "Zeta">>, << <<"a">>, "Alpha">>}

IntegrationItems ==
    {<< <<"a">>, "i_a">>, << <<"a", "b">>, "i_ab">>, << <<"b">>, "i_b">>}

LozengeItems == {<< <<"a">>, "l_a">>, << <<"b">>, "l_b">>}

ObjectIds == {"i_a", "i_ab", "i_b", "l_a", "l_b"}

\* The entries: i_a has no doc_context, i_ab an empty one, i_b one with a key.
\* An entry's hook writes one context key: hookKey[id], with the entry's id as
\* the value.
Objects(hookKey) ==
    [id \in ObjectIds |->
        [name        |-> id,
         doc         |-> id,
         doc_context |-> CASE id = "i_ab" -> <<EmptyDict>>
                           [] id = "i_b"  -> << [b_extra |-> "x"] >>
                           [] OTHER       -> <<>>,
         hook        |-> (hookKey[id] :> id)]]

DefaultHookKey == [id \in ObjectIds |-> id]

HookKeyChoices ==
    {hk \in [ObjectIds -> {"shared", "settings_html", "own"}] :
        /\ hk["i_ab"] = "own" /\ hk["l_b"] = "own"
        /\ hk["i_b"] # "settings_html" /\ hk["l_a"] # "settings_html"}

\* The example responses of the catalog.
Responses ==
    SeqsUpTo({",", " ", "\n"}, MaxResponseLen)
        \cup {<<"a", ",", " ", "b", ",", " ", "c">>,
              <<"a", ",", " ", "b", "\n", "c", ",", " ", "d">>}

Call(example_response) ==
    [endpoint         |-> <<"m">>,
     example_request  |-> [curl   |-> <<"c", " ">> \o ApiHost \o <<"/", "m">>,
                           python |-> <<"p">>],
     example_response |-> example_response]

Catalogs ==
    {<<>>} \cup {<<Call(r)>> : r \in Responses}
           \cup {<<Call(<<"a", ",", " ", "b", ",", " ", "c">>), Call(r)>> :
                    r \in {<<"\n">>, <<",", " ">>}}

DefaultCatalog == <<Call(<<"a", ",", " ", "b", ",", " ", "c">>)>>

DefaultOrder(items) == CHOOSE s \in Orders(items) : TRUE

Settings ==
    [ROOT_DOMAIN_LANDING_PAGE : BOOLEAN,
     EXTERNAL_API_PATH   : {<<"e", "x", ".", "c", "o", "m", "/", "a", "p", "i">>},
     EXTERNAL_URI_SCHEME : {<<"h", "t", "t", "p", "s", ":", "/", "/">>}]

NoRequest ==
    [endpoint |-> "none", article |-> <<>>, subdomain |-> <<>>,
     integration_name |-> <<>>]

NoResponse ==
    [status_code |-> 0, template_name |-> "", context |-> EmptyDict,
     content |-> <<>>]

\* The deployments checked: every set of installed help templates, every
\* iteration order of the registries, every choice of hook keys and every
\* catalog, each with the other parts at their defaults.
Init ==
    /\ settings \in Settings
    /\ \/ /\ templates \in SUBSET TemplateCandidates
          /\ CATEGORIES = DefaultOrder(CategoryItems)
          /\ INTEGRATIONS = DefaultOrder(IntegrationItems)
          /\ HUBOT_LOZENGES = DefaultOrder(LozengeItems)
          /\ objects = Objects(DefaultHookKey)
          /\ api_content = DefaultCatalog
       \/ /\ templates = AllTemplates
          /\ CATEGORIES \in Orders(CategoryItems)
          /\ INTEGRATIONS \in Orders(IntegrationItems)
          /\ HUBOT_LOZENGES \in Orders(LozengeItems)
          /\ objects = Objects(DefaultHookKey)
          /\ api_content = DefaultCatalog
       \/ /\ templates = AllTemplates
          /\ CATEGORIES = DefaultOrder(CategoryItems)
          /\ INTEGRATIONS = DefaultOrder(IntegrationItems)
          /\ HUBOT_LOZENGES = DefaultOrder(LozengeItems)
          /\ \E hk \in HookKeyChoices :
                objects = Objects([id \in ObjectIds |->
                                      IF hk[id] = "own" THEN id ELSE hk[id]])
          /\ api_content = DefaultCatalog
       \/ /\ templates = AllTemplates
          /\ CATEGORIES = DefaultOrder(CategoryItems)
          /\ INTEGRATIONS = DefaultOrder(IntegrationItems)
          /\ HUBOT_LOZENGES = DefaultOrder(LozengeItems)
          /\ objects = Objects(DefaultHookKey)
          /\ api_content \in Catalogs
    /\ start = [CATEGORIES |-> CATEGORIES, INTEGRATIONS |-> INTEGRATIONS,
                HUBOT_LOZENGES |-> HUBOT_LOZENGES, objects |-> objects]
    /\ request = NoRequest
    /\ response = NoResponse
    /\ trace = <<>>

\* ------------------------------------------------------------------ actions
\* GET of the API page: APIView is ApiURLView with a template.
APIView_get ==
    \E subdomain \in Subdomains :
        /\ request' = [NoRequest EXCEPT !.endpoint = "api", !.subdomain = subdomain]
        /\ response' = render("zerver/api.html",
                              ApiURLView_get_context_data("APIView", EmptyDict,
                                                          subdomain))
        /\ trace' = <<>>
        /\ UNCHANGED <<settings, templates, api_content, CATEGORIES,
                       INTEGRATIONS, HUBOT_LOZENGES, objects, start>>

\* GET of a help article
HelpView_request ==
    \E article \in Articles, subdomain \in Subdomains :
        /\ request' = [NoRequest EXCEPT !.endpoint = "help",
                                        !.article = article,
                                        !.subdomain = subdomain]
        /\ response' = HelpView_get(article, subdomain)
        /\ trace' = HelpView_lookups(article)
        /\ UNCHANGED <<settings, templates, api_content, CATEGORIES,
                       INTEGRATIONS, HUBOT_LOZENGES, objects, start>>

\* GET of the integrations directory
IntegrationView_get ==
    \E subdomain \in Subdomains :
        LET r == add_integrations_context(
                     ApiURLView_get_context_data("IntegrationView", EmptyDict,
                                                 subdomain))
        IN  /\ request' = [NoRequest EXCEPT !.endpoint = "integrations",
                                            !.subdomain = subdomain]
            /\ response' = render("zerver/integrations/index.html", r.context)
            /\ trace' = r.trace
            /\ UNCHANGED <<settings, templates, api_content, CATEGORIES,
                           INTEGRATIONS, HUBOT_LOZENGES, objects, start>>

\* integration_doc: the context is the integration's own doc_context dict when
\* that is non-empty, so what add_integrations_context writes lands in it.
integration_doc ==
    \E integration_name \in IntegrationNames :
        /\ request' = [NoRequest EXCEPT !.endpoint = "integration_doc",
                                        !.integration_name = integration_name]
        /\ IF KeyError(integration_name)
           THEN /\ response' = HttpResponseNotFound
                /\ trace' = <<>>
                /\ UNCHANGED objects
           ELSE LET id          == Lookup(integration_name)
                    integration == objects[id]
                    context     == IF Truthy(integration.doc_context)
                                   THEN integration.doc_context[1]
                                   ELSE EmptyDict
                    r           == add_integrations_context(context)
                IN  /\ response' = HttpResponse(
                                       render_markdown_path(integration.doc,
                                                            r.context))
                    /\ trace' = Append(r.trace,
                                       <<"render_markdown_path", integration.doc>>)
                    /\ objects' = IF Truthy(integration.doc_context)
                                  THEN [objects EXCEPT ![id].doc_context =
                                                           <<r.context>>]
                                  ELSE objects
        /\ UNCHANGED <<settings, templates, api_content, CATEGORIES,
                       INTEGRATIONS, HUBOT_LOZENGES, start>>

\* GET of the API endpoint reference page
api_endpoint_docs_request ==
    \E subdomain \in Subdomains :
        /\ request' = [NoRequest EXCEPT !.endpoint = "api_endpoint_docs",
                                        !.subdomain = subdomain]
        /\ response' = api_endpoint_docs(subdomain)
        /\ trace' = <<>>
        /\ UNCHANGED <<settings, templates, api_content, CATEGORIES,
                       INTEGRATIONS, HUBOT_LOZENGES, objects, start>>

Next ==
    \/ APIView_get
    \/ HelpView_request
    \/ IntegrationView_get
    \/ integration_doc
    \/ api_endpoint_docs_request

Spec == Init /\ [][Next]_vars

\* ================================================================== claims
\* Definitions used to state the claims, written without the model's helpers.
HasSlash(s) == \E i \in 1..Len(s) : s[i] = "/"

SlashCount(s) == Cardinality({i \in 1..Len(s) : s[i] = "/"})

HasNewline(s) == \E i \in 1..Len(s) : s[i] = "\n"

\* 'zerver/help/<name>.md'
HelpPath(name) ==
    <<"z", "e", "r", "v", "e", "r", "/", "h", "e", "l", "p", "/">> \o name
        \o <<".", "m", "d">>

\* Key s sorts before key t: at the first position where they differ s has
\* the smaller code point, or s ends there and t does not.
KeyBefore(s, t) ==
    \E k \in 1..Len(t) :
        /\ k <= Len(s) + 1
        /\ \A i \in 1..(k - 1) : s[i] = t[i]
        /\ \/ k = Len(s) + 1
           \/ Ord(s[k]) < Ord(t[k])

\* The items of a sequence, as a set
Items(seq) == {seq[i] : i \in 1..Len(seq)}

\* view holds exactly the items of registry, in ascending key order
SortedViewOf(view, registry) ==
    /\ Len(view) = Len(registry)
    /\ Items(view) = Items(registry)
    /\ \A i, j \in 1..Len(view) : i < j => KeyBefore(view[i][1], view[j][1])

\* The request reached add_api_uri_context and its context is the response's.
UsesApiUriContext == request.endpoint \in {"api", "help", "integrations"}

\* The request reached add_integrations_context.
UsesIntegrationsContext ==
    \/ request.endpoint = "integrations"
    \/ request.endpoint = "integration_doc" /\ response.status_code = 200

\* The context add_integrations_context worked on.
IntegrationsContext ==
    IF request.endpoint = "integration_doc"
    THEN response.content[3]
    ELSE response.context

PrefixedPath(subdomain) == subdomain \o <<".">> \o settings.EXTERNAL_API_PATH

\* ------------------------------------------------------------------- C1
\* C1: a help request whose article name contains '/' is answered with
\* status 404, whatever templates are installed.
C1_SlashArticleIs404 ==
    (request.endpoint = "help" /\ HasSlash(request.article))
        => response.status_code = 404

\* A request for a/a answered 404 although a/a.md and missing.md are installed.
C1_Witness ==
    /\ request.endpoint = "help"
    /\ request.article = <<"a", "/", "a">>
    /\ HelpPath(request.article) \in templates
    /\ HelpPath(missing) \in templates
    /\ response.status_code = 404

\* ------------------------------------------------------------------- C2
\* C2: request handling never mutates the registries: CATEGORIES,
\* INTEGRATIONS, HUBOT_LOZENGES and every field of every entry (its
\* doc_context included) equal their values at process start.
C2_RegistriesNeverMutated ==
    /\ CATEGORIES = start.CATEGORIES
    /\ INTEGRATIONS = start.INTEGRATIONS
    /\ HUBOT_LOZENGES = start.HUBOT_LOZENGES
    /\ objects = start.objects

\* ------------------------------------------------------------------- C3
\* C3: integration_doc answers a name that is no key of INTEGRATIONS (None
\* included) with 404 and an empty body, having called neither a hook nor the
\* renderer; it answers a key with 200 and that integration's rendered doc.
C3_IntegrationDocLookup ==
    request.endpoint = "integration_doc" =>
        LET name  == request.integration_name
            items == {it \in Items(start.INTEGRATIONS) :
                         name # <<>> /\ it[1] = name[1]}
        IN  /\ items = {} =>
                /\ response.status_code = 404
                /\ response.content = <<>>
                /\ trace = <<>>
            /\ \A it \in items :
                /\ response.status_code = 200
                /\ response.content # <<>>
                /\ response.content[1] = "render_markdown_path"
                /\ response.content[2] = start.objects[it[2]].doc
                /\ trace[Len(trace)] =
                       <<"render_markdown_path", start.objects[it[2]].doc>>

\* The name c, which is no key, was answered 404 with an empty body.
C3_Witness ==
    /\ request.endpoint = "integration_doc"
    /\ request.integration_name = << <<"c">> >>
    /\ response.status_code = 404
    /\ response.content = <<>>

\* ------------------------------------------------------------------- C4
\* C4: when the templated path of the article does not resolve, the context's
\* article is the 'missing' path and the status is 404; when the name has no
\* '/' and its templated path resolves, the context's article is that path
\* and the status stays 200.
C4_MissingTemplateFallback ==
    request.endpoint = "help" =>
        LET path == trace[1][2]
        IN  /\ path \notin templates =>
                /\ response.context["article"] = HelpPath(missing)
                /\ response.status_code = 404
            /\ (~HasSlash(request.article) /\ path \in templates) =>
                /\ response.context["article"] = path
                /\ response.status_code = 200

\* A request for a, whose template a.md is not installed, got the 'missing'
\* article and status 404.
C4_Witness ==
    /\ request.endpoint = "help"
    /\ request.article = <<"a">>
    /\ HelpPath(<<"a">>) \notin templates
    /\ response.context["article"] = HelpPath(missing)
    /\ response.status_code = 404

\* ------------------------------------------------------------------- C5
\* C5: for the root domain with ROOT_DOMAIN_LANDING_PAGE enabled the display
\* subdomain is 'yourZulipDomain' and html_settings_links is False; for any
\* other subdomain the display subdomain is the subdomain itself and
\* html_settings_links is True.  The display subdomain is read off the
\* subdomain-prefixed API path.
C5_DisplaySubdomain ==
    UsesApiUriContext =>
        /\ (request.subdomain = SUBDOMAIN_FOR_ROOT_DOMAIN
                /\ settings.ROOT_DOMAIN_LANDING_PAGE) =>
              /\ response.context["external_api_path_subdomain"] =
                     PrefixedPath(yourZulipDomain)
              /\ response.context["html_settings_links"] = FALSE
        /\ request.subdomain # SUBDOMAIN_FOR_ROOT_DOMAIN =>
              /\ response.context["external_api_path_subdomain"] =
                     PrefixedPath(request.subdomain)
              /\ response.context["html_settings_links"] = TRUE

\* A root-domain request on a landing-page deployment got the placeholder.
C5_Witness ==
    /\ request.endpoint = "api"
    /\ request.subdomain = SUBDOMAIN_FOR_ROOT_DOMAIN
    /\ settings.ROOT_DOMAIN_LANDING_PAGE
    /\ response.context["html_settings_links"] = FALSE
    /\ response.context["external_api_path_subdomain"] =
           PrefixedPath(yourZulipDomain)

\* ------------------------------------------------------------------- C6
\* C6: after add_integrations_context the three dict views of the context
\* hold exactly the items of CATEGORIES, INTEGRATIONS and HUBOT_LOZENGES, in
\* ascending key order, whatever the registries' iteration order.
C6_SortedViews ==
    UsesIntegrationsContext =>
        /\ SortedViewOf(IntegrationsContext["categories_dict"], start.CATEGORIES)
        /\ SortedViewOf(IntegrationsContext["integrations_dict"],
                        start.INTEGRATIONS)
        /\ SortedViewOf(IntegrationsContext["hubot_lozenges_dict"],
                        start.HUBOT_LOZENGES)

\* The directory was built from registries none of which iterates in key order.
C6_Witness ==
    /\ request.endpoint = "integrations"
    /\ response.context["categories_dict"] # CATEGORIES
    /\ response.context["integrations_dict"] # INTEGRATIONS
    /\ response.context["hubot_lozenges_dict"] # HUBOT_LOZENGES
    /\ SortedViewOf(response.context["integrations_dict"], INTEGRATIONS)

\* ------------------------------------------------------------------- C7
\* C7: get_path maps the empty name to the 'index' path, a name with '/' to
\* the 'missing' path and any other name to the template filled with it, so
\* the name contributes no '/' to the path.  The path is the one the help
\* view hands to loader.get_template.
C7_GetPath ==
    request.endpoint = "help" =>
        LET article == request.article
            path    == trace[1][2]
        IN  /\ article = <<>> => path = HelpPath(index)
            /\ HasSlash(article) => path = HelpPath(missing)
            /\ (article # <<>> /\ ~HasSlash(article)) => path = HelpPath(article)
            /\ SlashCount(path) = SlashCount(HelpPath(<<>>))

\* The name /a was mapped to the 'missing' path.
C7_Witness ==
    /\ request.endpoint = "help"
    /\ request.article = <<"/", "a">>
    /\ trace[1] = <<"get_template", HelpPath(missing)>>

\* ------------------------------------------------------------------- C8
\* Deleting every newline of s
WithoutNewlines(s) == SelectSeq(s, LAMBDA c : c # "\n")

\* out is s with a newline put between the comma and the space of every
\* comma-space of s, and nowhere else (s has no newline).
PrettyPrinted(out, s) ==
    /\ WithoutNewlines(out) = s
    /\ \A i \in 1..Len(out) :
          out[i] = "\n" => /\ 1 < i /\ i < Len(out)
                           /\ out[i - 1] = "," /\ out[i + 1] = " "
    /\ \A i \in 1..(Len(out) - 1) : ~(out[i] = "," /\ out[i + 1] = " ")

\* The text api_endpoint_docs handed to the renderer for call i
RendererInput(i) == response.context["content"][i].rendered_response[2]

\* C8: an example response without a newline reaches the renderer with every
\* comma-space turned into comma-newline-space ("a, b, c" becomes
\* "a,\n b,\n c"); one with a newline reaches it unchanged.
C8_PrettyPrint ==
    request.endpoint = "api_endpoint_docs" =>
        /\ Len(response.context["content"]) = Len(api_content)
        /\ \A i \in 1..Len(api_content) :
              LET r == api_content[i].example_response
              IN  /\ \E out \in {SubSeq(RendererInput(i), Len(FenceOpen) + 1,
                                        Len(RendererInput(i)) - Len(FenceClose))} :
                        /\ RendererInput(i) = FenceOpen \o out \o FenceClose
                        /\ HasNewline(r) => out = r
                        /\ ~HasNewline(r) => PrettyPrinted(out, r)
                  /\ r = <<"a", ",", " ", "b", ",", " ", "c">> =>
                        RendererInput(i) =
                            FenceOpen
                                \o <<"a", ",", "\n", " ", "b", ",", "\n", " ", "c">>
                                \o FenceClose

\* "a, b, c" was rendered as "a,\n b,\n c".
C8_Witness ==
    /\ request.endpoint = "api_endpoint_docs"
    /\ Len(api_content) > 0
    /\ api_content[1].example_response = <<"a", ",", " ", "b", ",", " ", "c">>
    /\ RendererInput(1) =
           FenceOpen \o <<"a", ",", "\n", " ", "b", ",", "\n", " ", "c">>
                     \o FenceClose

\* ------------------------------------------------------------------- C9
\* C9: external_api_path_subdomain is '<display subdomain>.<EXTERNAL_API_PATH>'
\* unless the display subdomain is the root-domain sentinel, in which case it
\* is EXTERNAL_API_PATH, and external_api_uri_subdomain is EXTERNAL_URI_SCHEME
\* followed by that path; so a root-domain request gets the unprefixed path
\* exactly when ROOT_DOMAIN_LANDING_PAGE is disabled and the
\* placeholder-prefixed path when it is enabled.
C9_ExternalApiPath ==
    UsesApiUriContext =>
        LET path == response.context["external_api_path_subdomain"]
            uri  == response.context["external_api_uri_subdomain"]
            root == request.subdomain = SUBDOMAIN_FOR_ROOT_DOMAIN
        IN  /\ ~root => path = PrefixedPath(request.subdomain)
            /\ (root /\ ~settings.ROOT_DOMAIN_LANDING_PAGE) =>
                  path = settings.EXTERNAL_API_PATH
            /\ (root /\ settings.ROOT_DOMAIN_LANDING_PAGE) =>
                  path = PrefixedPath(yourZulipDomain)
            /\ uri = settings.EXTERNAL_URI_SCHEME \o path

\* A root-domain request without a landing page got the unprefixed path.
C9_Witness ==
    /\ request.endpoint = "api"
    /\ request.subdomain = SUBDOMAIN_FOR_ROOT_DOMAIN
    /\ ~settings.ROOT_DOMAIN_LANDING_PAGE
    /\ response.context["external_api_path_subdomain"] = settings.EXTERNAL_API_PATH
    /\ response.context["external_api_uri_subdomain"] =
           settings.EXTERNAL_URI_SCHEME \o settings.EXTERNAL_API_PATH

\* ------------------------------------------------------------------ C10
\* The positions of the trace at which a hook was called
HookCalls == {i \in 1..Len(trace) : trace[i][1] = "add_doc_context"}

\* The registry ("I" or "L") and key under which an entry is registered
RegisteredAs(id) ==
    {<<"I", it[1]>> : it \in {x \in Items(start.INTEGRATIONS) : x[2] = id}}
        \cup {<<"L", it[1]>> : it \in {x \in Items(start.HUBOT_LOZENGES) : x[2] = id}}

\* The hook called at position i comes before the one called at position j
\* in the order: integrations by ascending key, then lozenges by ascending key.
InHookOrder(i, j) ==
    \E a \in RegisteredAs(trace[i][2]), b \in RegisteredAs(trace[j][2]) :
        \/ a[1] = "I" /\ b[1] = "L"
        \/ a[1] = b[1] /\ KeyBefore(a[2], b[2])

\* C10: add_integrations_context calls the hook of every integration and of
\* every lozenge exactly once, integrations in ascending key order before
\* lozenges in ascending key order, after it has written the three views,
\* settings_html and subscriptions_html; so for a key that hooks write, the
\* context holds what the last of them in that order wrote.
C10_HookOrder ==
    UsesIntegrationsContext =>
        /\ {trace[i][2] : i \in HookCalls} =
               {it[2] : it \in Items(start.INTEGRATIONS)
                                  \cup Items(start.HUBOT_LOZENGES)}
        /\ Cardinality(HookCalls) =
               Len(start.INTEGRATIONS) + Len(start.HUBOT_LOZENGES)
        /\ \A i, j \in HookCalls : i < j => InHookOrder(i, j)
        /\ \A k \in {"categories_dict", "integrations_dict",
                     "hubot_lozenges_dict", "settings_html",
                     "subscriptions_html"} :
              \E w \in 1..Len(trace) :
                  /\ trace[w] = <<"set", k>>
                  /\ \A i \in HookCalls : w < i
        /\ \A i \in HookCalls :
              \A k \in DOMAIN start.objects[trace[i][2]].hook :
                  (\A j \in HookCalls :
                      j > i => k \notin DOMAIN start.objects[trace[j][2]].hook)
                      => IntegrationsContext[k] =
                             start.objects[trace[i][2]].hook[k]

\* The directory's context has settings_html as the hook of integration a
\* wrote it, and the shared key as the hook of lozenge a wrote it over the
\* hook of integration b.
C10_Witness ==
    /\ request.endpoint = "integrations"
    /\ "shared" \in DOMAIN objects["i_b"].hook
    /\ "shared" \in DOMAIN objects["l_a"].hook
    /\ "settings_html" \in DOMAIN objects["i_a"].hook
    /\ response.context["shared"] = "l_a"
    /\ response.context["settings_html"] = "i_a"

====
